---- MODULE Spec2Model ----
(***************************************************************************)
(* Model of the rate-limit fallback plugin (src/src/plugin.ts): the        *)
(* per-session fallback state machine run by the `event` hook, the         *)
(* pattern matcher and the message-part reconstruction.                    *)
(*                                                                         *)
(* The hook is an async function: it runs synchronously up to each `await` *)
(* and may be overlapped there by other invocations of the hook.  Every    *)
(* action below is one such synchronous segment of one invocation.         *)
(***************************************************************************)
EXTENDS Integers, Sequences, FiniteSets, TLC

(***************************************************************************)
(* Bounds of the model.                                                    *)
(***************************************************************************)
MaxHandlers == 2      \* hook invocations that may be in flight together
MaxRacers == 3        \* the same, where only retries and idles race (SpecRace)
MaxTime == 3          \* last value of the clock read by Date.now()
MaxHist == 3          \* longest message history the host returns
MaxParts == 2         \* longest part list given to the reconstruction

(***************************************************************************)
(* Configuration (config.cooldownMs, config.patterns, config.fallbackModel)*)
(***************************************************************************)
CooldownMs == 2

Patterns == << <<"R", "l">>, <<"q", "Q">> >>

fallbackModel == [providerID |-> "anthropic", modelID |-> "claude-opus-4-5"]

(***************************************************************************)
(* JavaScript values.  Undef stands for an absent (undefined) string       *)
(* field; a string is truthy when it is present and not empty.             *)
(***************************************************************************)
Undef == "<undefined>"

Truthy(v) == v # Undef /\ v # ""

Sessions == {"s1", "s2"}

\* the slots of the invocations in flight; Spec uses the first MaxHandlers
Handlers == 1..MaxRacers

(***************************************************************************)
(* Retry messages are sequences of characters; NoMessage is an absent      *)
(* status.message.                                                         *)
(***************************************************************************)
NoMessage == <<Undef>>

Messages == { <<>>, <<"x", "R", "L", "x">>, <<"q", "q">>, <<"l", "r">>, <<"x", "r">> }

MessageTruthy(m) == m # NoMessage /\ m # <<>>

toLowerCase(str) ==
  [i \in 1..Len(str) |->
     CASE str[i] = "R" -> "r"
       [] str[i] = "L" -> "l"
       [] str[i] = "Q" -> "q"
       [] str[i] = "X" -> "x"
       [] OTHER -> str[i]]

\* String.prototype.includes: needle occurs in hay from some position on.
RECURSIVE includesFrom(_, _, _)
includesFrom(hay, needle, from) ==
  IF from + Len(needle) - 1 > Len(hay) THEN FALSE
  ELSE IF SubSeq(hay, from, from + Len(needle) - 1) = needle THEN TRUE
  ELSE includesFrom(hay, needle, from + 1)

includes(hay, needle) == includesFrom(hay, needle, 1)

\* createPatternMatcher(patterns)(message)
isRateLimitMessage(message) ==
  LET lower == toLowerCase(message)
  IN \E i \in 1..Len(Patterns) : includes(lower, toLowerCase(Patterns[i]))

(***************************************************************************)
(* Message parts and histories (MessagePart, MessageInfo,                  *)
(* MessageWithParts).  A part's `synthetic` is "true" for the boolean      *)
(* true, "false" for false and Undef when the field is absent.             *)
(***************************************************************************)
Part(type, text, mime, filename, url, name, synthetic) ==
  [type |-> type, text |-> text, mime |-> mime, filename |-> filename,
   url |-> url, name |-> name, synthetic |-> synthetic]

TextPart(text, synthetic) == Part("text", text, Undef, Undef, Undef, Undef, synthetic)

FilePart(mime, filename, url, synthetic) ==
  Part("file", Undef, mime, filename, url, Undef, synthetic)

AgentPart(name, synthetic) == Part("agent", Undef, Undef, Undef, Undef, name, synthetic)

OtherPart(synthetic) == Part("tool", Undef, Undef, Undef, Undef, Undef, synthetic)

Null == [type |-> "null"]

\* a test for synthetic parts that never finds one
isSyntheticPart_never(part) == FALSE

\* (part as any).synthetic === true
isSyntheticPart(part) == part.synthetic = "true"

convertToPromptPart(part) ==
  CASE part.type = "text" ->
         IF Truthy(part.text) THEN [type |-> "text", text |-> part.text] ELSE Null
    [] part.type = "file" ->
         IF Truthy(part.url) /\ Truthy(part.mime)
         THEN [type |-> "file", mime |-> part.mime, filename |-> part.filename,
               url |-> part.url]
         ELSE Null
    [] part.type = "agent" ->
         IF Truthy(part.name) THEN [type |-> "agent", name |-> part.name] ELSE Null
    [] OTHER -> Null

\* parts.map(p => convertToPromptPart(p))
convertAll(parts) == [i \in 1..Len(parts) |-> convertToPromptPart(parts[i])]

NotSynthetic(p) == ~isSyntheticPart(p)

NotNull(p) == p.type # "null"

\* lastUserMessage.parts.filter(...).map(...).filter(...)
originalParts(parts) ==
  SelectSeq(convertAll(SelectSeq(parts, NotSynthetic)), NotNull)

(***************************************************************************)
(* Histories returned by session.messages.  Message i of a history has the *)
(* identifier MsgIds[i]; identifiers are unique within a history.          *)
(***************************************************************************)
MsgIds == <<"m1", "m2", "m3", "m4", "m5", "m6">>

\* the parts of message i in the histories of variant v
PartsOf(i, v) ==
  CASE (i + v) % 3 = 1 -> << TextPart("a", Undef) >>
    [] (i + v) % 3 = 2 ->
         << TextPart("b", "true"), TextPart("a", "false"), AgentPart("ag", Undef) >>
    [] OTHER -> << FilePart(Undef, "f", "u", Undef) >>

AgentOf(i) == IF i % 2 = 0 THEN "build" ELSE Undef

Message(i, role, v) ==
  [info |-> [id |-> MsgIds[i], role |-> role, agent |-> AgentOf(i),
             model |-> [providerID |-> "openai", modelID |-> "gpt"]],
   parts |-> PartsOf(i, v)]

History(roles, v) == [i \in 1..Len(roles) |-> Message(i, roles[i], v)]

Roles == {"user", "assistant"}

Variants == 0..2

AllHistories ==
  { History(r, v) : r \in UNION { [1..n -> Roles] : n \in 0..MaxHist }, v \in Variants }

\* messagesResponse.data: a history, or undefined
Response(defined, data) == [defined |-> defined, data |-> data]

NoData == Response(FALSE, <<>>)

AllResponses == {NoData} \cup { Response(TRUE, d) : d \in AllHistories }

\* one response for each way the sequence can go on after the fetch
SomeResponses ==
  {NoData} \cup
  { Response(TRUE, History(r, 0)) :
      r \in { << >>, <<"assistant">>, <<"user">>, <<"assistant", "user">>,
              <<"user", "assistant", "user">> } }

\* [...messages].reverse()
reverse(seq) == [i \in 1..Len(seq) |-> seq[Len(seq) + 1 - i]]

IsUser(m) == m.info.role = "user"

\* Array.prototype.find with m => m.info.role === "user": the place (from 1) of
\* the first such message from place i on, 0 when find returns undefined
RECURSIVE findUserFrom(_, _)
findUserFrom(seq, i) ==
  IF i > Len(seq) THEN 0
  ELSE IF IsUser(seq[i]) THEN i
  ELSE findUserFrom(seq, i + 1)

\* Array.prototype.findIndex with m => m.info.id === id, 0-based; -1 when no
\* message has the identifier
RECURSIVE findIndexFrom(_, _, _)
findIndexFrom(seq, id, i) ==
  IF i > Len(seq) THEN -1
  ELSE IF seq[i].info.id = id THEN i - 1
  ELSE findIndexFrom(seq, id, i + 1)

hasUserMessage(msgs) == findUserFrom(reverse(msgs), 1) # 0

\* the first user message instead of the last
lastUserMessage_first(msgs) == msgs[findUserFrom(msgs, 1)]

\* [...messages].reverse().find(m => m.info.role === "user")
lastUserMessage(msgs) == reverse(msgs)[findUserFrom(reverse(msgs), 1)]

\* messages.findIndex(m => m.info.id === lastUserMessage.info.id)
lastUserIndex(msgs) == findIndexFrom(msgs, lastUserMessage(msgs).info.id, 1)

hasRevertTarget(msgs) == lastUserIndex(msgs) > 0

\* messages[lastUserIndex - 1]
revertToMessage(msgs) == msgs[(lastUserIndex(msgs) - 1) + 1]

(***************************************************************************)
(* Lifecycle events given to the hook.                                     *)
(***************************************************************************)
StatusEvent(sid, type, message) ==
  [type |-> "session.status", sessionID |-> sid, status |-> type,
   message |-> message, id |-> Undef]

DeletedEvent(id) ==
  [type |-> "session.deleted", sessionID |-> Undef, status |-> Undef,
   message |-> NoMessage, id |-> id]

OtherEvent ==
  [type |-> "message.updated", sessionID |-> Undef, status |-> Undef,
   message |-> NoMessage, id |-> Undef]

\* the events about the sessions of S, and those about no session
Events(S) ==
  { StatusEvent(s, "retry", m) : s \in S, m \in Messages \cup {NoMessage} }
    \cup { StatusEvent(s, t, NoMessage) : s \in S, t \in {"idle", "busy"} }
    \cup { DeletedEvent(i) : i \in S \cup {Undef} }
    \cup { OtherEvent }

(***************************************************************************)
(* State.                                                                  *)
(*   sessionStates  the Map of line 36: a function whose domain is the set *)
(*                  of keys present                                        *)
(*   now            the value Date.now() returns                           *)
(*   pc             per invocation slot, the await it is suspended at      *)
(*                  ("free": no invocation in the slot)                    *)
(*   sessionID      per slot, the `sessionID` local                        *)
(*   messages       per slot, the `messages` local (messagesResponse.data) *)
(*   trace          per slot, the store writes and the calls to the logger *)
(*                  and the host client the invocation has made            *)
(* History variables, read by the properties only:                         *)
(*   delivered      <<[h, event, before]>> right after the hook was called *)
(*                  with `event` in slot h and store `before`, else <<>>   *)
(*   lastCooldownEnd  per session, the cooldownEndTime written last (-1    *)
(*                  when none), kept when the entry is removed             *)
(*   disturbed      per slot, what was handled for the slot's session      *)
(*                  since the slot wrote its entry: "event" (an idle or    *)
(*                  deleted event), else "retry" (another retry's write),  *)
(*                  else "no"                                              *)
(*   cleaned        per session, whether a deleted event for it was        *)
(*                  handled and no qualifying retry for it has arrived     *)
(*                  since                                                  *)
(* For the reconstruction taken alone (SpecRecon):                         *)
(*   recon          a part list, and the parts rebuilt from it once        *)
(*                  `done`                                                 *)
(***************************************************************************)
VARIABLES sessionStates, now, pc, sessionID, messages, trace,
          delivered, lastCooldownEnd, disturbed, cleaned, recon

vars == <<sessionStates, now, pc, sessionID, messages, trace,
          delivered, lastCooldownEnd, disturbed, cleaned, recon>>

SessionState(active, endTime) == [fallbackActive |-> active, cooldownEndTime |-> endTime]

\* a store that keeps one entry, the last one written
MapSet_onlyKey(map, key, value) == [k \in {key} |-> value]

\* Map.prototype.set / delete
MapSet(map, key, value) ==
  [k \in DOMAIN map \cup {key} |-> IF k = key THEN value ELSE map[k]]

\* a delete that spares an entry whose fallback is active
MapDelete_sparesActive(map, key) ==
  [k \in { x \in DOMAIN map : x # key \/ map[x].fallbackActive } |-> map[k]]

MapDelete(map, key) == [k \in DOMAIN map \ {key} |-> map[k]]

\* the gate still shut at the instant the cooldown ends
cooldownActive_inclusive(map, sid, t) ==
  /\ sid \in DOMAIN map
  /\ map[sid].fallbackActive
  /\ t <= map[sid].cooldownEndTime

\* the gate with its comparison turned round
cooldownActive_turned(map, sid, t) ==
  /\ sid \in DOMAIN map
  /\ map[sid].fallbackActive
  /\ t > map[sid].cooldownEndTime

\* existingState?.fallbackActive && Date.now() < existingState.cooldownEndTime
cooldownActive(map, sid, t) ==
  /\ sid \in DOMAIN map
  /\ map[sid].fallbackActive
  /\ t < map[sid].cooldownEndTime

\* the idle test with a strict comparison
cooldownExpired_strict(map, sid, t) ==
  /\ sid \in DOMAIN map
  /\ map[sid].fallbackActive
  /\ t > map[sid].cooldownEndTime

\* the idle test without the deadline
cooldownExpired_anytime(map, sid, t) ==
  /\ sid \in DOMAIN map
  /\ map[sid].fallbackActive

\* state && state.fallbackActive && Date.now() >= state.cooldownEndTime
cooldownExpired(map, sid, t) ==
  /\ sid \in DOMAIN map
  /\ map[sid].fallbackActive
  /\ t >= map[sid].cooldownEndTime

\* an entry whose cooldown ends as it starts
newState_noCooldown(t) == SessionState(TRUE, t)

\* { fallbackActive: true, cooldownEndTime: Date.now() + config.cooldownMs }
newState(t) == SessionState(TRUE, t + CooldownMs)

\* the retry guard without the pattern test
isQualifyingRetry_anyMessage(event) ==
  /\ event.type = "session.status"
  /\ event.status = "retry"
  /\ MessageTruthy(event.message)

\* props.status.type === "retry" && props.status.message && isRateLimitMessage(...)
isQualifyingRetry(event) ==
  /\ event.type = "session.status"
  /\ event.status = "retry"
  /\ MessageTruthy(event.message)
  /\ isRateLimitMessage(event.message)

\* a busy status taken for an idle one
isIdle_orBusy(event) ==
  event.type = "session.status" /\ event.status \in {"idle", "busy"}

isIdle(event) == event.type = "session.status" /\ event.status = "idle"

\* event.type === "session.deleted" && props.info?.id
isDeleted(event) == event.type = "session.deleted" /\ Truthy(event.id)

(***************************************************************************)
(* Trace entries.                                                          *)
(***************************************************************************)
LogCall(msg) == [op |-> "log", msg |-> msg]

SetCall(sid, state, t) == [op |-> "set", id |-> sid, state |-> state, at |-> t]

AbortCall(sid) == [op |-> "abort", id |-> sid]

MessagesCall(sid) == [op |-> "messages", id |-> sid]

RevertCall(sid, messageID) == [op |-> "revert", id |-> sid, messageID |-> messageID]

PromptCall(sid, model, agent, parts) ==
  [op |-> "prompt", id |-> sid, model |-> model, agent |-> agent, parts |-> parts]

Returned(op) == [op |-> "return", of |-> op]

Thrown(op) == [op |-> "throw", of |-> op]

HostOps == {"abort", "messages", "revert", "prompt"}

\* pcs of an invocation that has written its entry and runs the sequence
RunningPcs == {"abort", "delay1", "messages", "log_found", "revert", "delay2", "prompt"}

\* pcs of an invocation whose sequence is over: the last logger call
EndPcs == {"log_nomsgs", "log_nouser", "log_noparts", "log_success", "log_failed"}

\* pcs of an invocation that only awaits its logger call and returns
LastLogPcs == EndPcs \cup {"log_skip", "log_reset", "log_cleanup"}

BlankResponse == NoData

NoRecon == [input |-> << >>, output |-> << >>, done |-> FALSE]

Plugin ==
  /\ sessionStates = [k \in {} |-> SessionState(FALSE, 0)]
  /\ now = 0
  /\ pc = [h \in Handlers |-> "free"]
  /\ sessionID = [h \in Handlers |-> Undef]
  /\ messages = [h \in Handlers |-> BlankResponse]
  /\ trace = [h \in Handlers |-> << >>]
  /\ delivered = << >>
  /\ lastCooldownEnd = [s \in Sessions |-> -1]
  /\ disturbed = [h \in Handlers |-> "no"]
  /\ cleaned = [s \in Sessions |-> FALSE]

Init == Plugin /\ recon = NoRecon

\* the slot a new invocation of the hook takes
firstFree(h) == pc[h] = "free" /\ \A g \in Handlers : g < h => pc[g] # "free"

\* slots past their write whose session is sid
Sequencing(sid) ==
  { g \in Handlers : pc[g] \in RunningPcs \cup EndPcs /\ sessionID[g] = sid }

Disturb(sid, what) ==
  disturbed' = [g \in Handlers |->
                  IF g \in Sequencing(sid) /\ (what = "event" \/ disturbed[g] = "no")
                  THEN what ELSE disturbed[g]]

(***************************************************************************)
(* The hook, one action per synchronous segment.                           *)
(***************************************************************************)
Suspend(h, at, sid, calls) ==
  /\ pc' = [pc EXCEPT ![h] = at]
  /\ sessionID' = [sessionID EXCEPT ![h] = sid]
  /\ trace' = [trace EXCEPT ![h] = trace[h] \o calls]

Goto(h, at, calls) == Suspend(h, at, sessionID[h], calls)

\* Lines 64-98 and 167-184 up to the first await: the hook is called with
\* `event`; an event that reaches no await returns at once.
OnEvent(h, event) ==
  /\ firstFree(h)
  /\ delivered' = << [h |-> h, event |-> event, before |-> sessionStates] >>
  /\ UNCHANGED recon
  /\ UNCHANGED <<now, messages, lastCooldownEnd>>
  /\ cleaned' = IF isQualifyingRetry(event)
                 THEN [cleaned EXCEPT ![event.sessionID] = FALSE]
                 ELSE IF isDeleted(event)
                 THEN [cleaned EXCEPT ![event.id] = TRUE]
                 ELSE cleaned
  /\ IF isQualifyingRetry(event)
     THEN /\ IF cooldownActive(sessionStates, event.sessionID, now)
             THEN Suspend(h, "log_skip", event.sessionID,
                          << LogCall("Skipping fallback, cooldown active") >>)
             ELSE Suspend(h, "log_detect", event.sessionID,
                          << LogCall("Rate limit detected, switching to fallback") >>)
          /\ UNCHANGED <<sessionStates, disturbed>>
     ELSE IF isIdle(event)
     THEN /\ IF cooldownExpired(sessionStates, event.sessionID, now)
             THEN /\ sessionStates' =
                       [sessionStates EXCEPT ![event.sessionID].fallbackActive = FALSE]
                  /\ Suspend(h, "log_reset", event.sessionID,
                             << LogCall("Cooldown expired, fallback reset") >>)
             ELSE UNCHANGED <<sessionStates, pc, sessionID, trace>>
          /\ Disturb(event.sessionID, "event")
     ELSE IF isDeleted(event)
     THEN /\ sessionStates' = MapDelete(sessionStates, event.id)
          /\ Suspend(h, "log_cleanup", Undef, << LogCall("Session cleaned up") >>)
          /\ Disturb(event.id, "event")
     ELSE UNCHANGED <<sessionStates, pc, sessionID, trace, disturbed>>

\* abort requested without the entry being written
Detect_noWrite(h) ==
  /\ pc[h] = "log_detect"
  /\ Goto(h, "abort", << AbortCall(sessionID[h]) >>)
  /\ delivered' = << >>
  /\ UNCHANGED recon
  /\ UNCHANGED <<sessionStates, lastCooldownEnd, disturbed, cleaned, now, messages>>

\* Lines 89-101: the logger call of line 89 returns; the entry is written and
\* abort is requested.
Detect(h) ==
  /\ pc[h] = "log_detect"
  /\ sessionStates' = MapSet(sessionStates, sessionID[h], newState(now))
  /\ lastCooldownEnd' = [lastCooldownEnd EXCEPT ![sessionID[h]] = now + CooldownMs]
  /\ Goto(h, "abort",
          << SetCall(sessionID[h], newState(now), now), AbortCall(sessionID[h]) >>)
  /\ disturbed' = [g \in Handlers |->
                     IF g = h THEN "no"
                     ELSE IF g \in Sequencing(sessionID[h]) /\ disturbed[g] = "no"
                     THEN "retry" ELSE disturbed[g]]
  /\ delivered' = << >>
  /\ UNCHANGED recon
  /\ UNCHANGED <<now, messages, cleaned>>

Frame == /\ delivered' = << >>
         /\ UNCHANGED recon
         /\ UNCHANGED <<sessionStates, now, lastCooldownEnd, disturbed, cleaned>>

\* a catch clause that also withdraws the entry
Throw_withdraws(h, op) ==
  /\ pc[h] = op
  /\ Goto(h, "log_failed", << Thrown(op), LogCall("Failed to send fallback prompt") >>)
  /\ sessionStates' = MapDelete(sessionStates, sessionID[h])
  /\ delivered' = << >>
  /\ UNCHANGED recon
  /\ UNCHANGED <<messages, now, lastCooldownEnd, disturbed, cleaned>>

\* a catch clause that starts the sequence again, once
Throw_retries(h, op) ==
  /\ pc[h] = op
  /\ IF \E i \in 1..Len(trace[h]) : trace[h][i].op = "throw"
     THEN Goto(h, "log_failed", << Thrown(op), LogCall("Failed to send fallback prompt") >>)
     ELSE Goto(h, "abort", << Thrown(op), AbortCall(sessionID[h]) >>)
  /\ UNCHANGED messages
  /\ Frame

\* Line 159: a host call of the sequence throws; the catch clause logs.
Throw(h, op) ==
  /\ pc[h] = op
  /\ Goto(h, "log_failed", << Thrown(op), LogCall("Failed to send fallback prompt") >>)
  /\ UNCHANGED messages
  /\ Frame

\* a sequence that gives up once its entry is gone
AbortReturn_cancelled(h) ==
  /\ pc[h] = "abort"
  /\ IF sessionID[h] \in DOMAIN sessionStates
     THEN Goto(h, "delay1", << Returned("abort") >>)
     ELSE Goto(h, "log_cleanup", << Returned("abort") >>)
  /\ UNCHANGED messages
  /\ Frame

\* Lines 101-102: abort returns; the first delay starts.
AbortReturn(h) ==
  /\ pc[h] = "abort"
  /\ Goto(h, "delay1", << Returned("abort") >>)
  /\ UNCHANGED messages
  /\ Frame

AbortThrow(h) ==
  /\ Throw(h, "abort")

\* host calls made one at a time: the history is requested only once no
\* other invocation waits for a host call
Delay1_serial(h) ==
  /\ pc[h] = "delay1"
  /\ \A g \in Handlers \ {h} : pc[g] \notin HostOps
  /\ Goto(h, "messages", << MessagesCall(sessionID[h]) >>)
  /\ UNCHANGED messages
  /\ Frame

\* Lines 102-104: the delay is over; the history is requested.
Delay1(h) ==
  /\ pc[h] = "delay1"
  /\ Goto(h, "messages", << MessagesCall(sessionID[h]) >>)
  /\ UNCHANGED messages
  /\ Frame

\* Lines 104-125: the history arrives; the last user message is located.
MessagesReturn(h, response) ==
  /\ pc[h] = "messages"
  /\ messages' = [messages EXCEPT ![h] = response]
  /\ IF ~response.defined \/ Len(response.data) = 0
     THEN Goto(h, "log_nomsgs",
               << Returned("messages"), LogCall("No messages found in session") >>)
     ELSE IF ~hasUserMessage(response.data)
     THEN Goto(h, "log_nouser",
               << Returned("messages"), LogCall("No user message found in session") >>)
     ELSE Goto(h, "log_found",
               << Returned("messages"), LogCall("Found last user message") >>)
  /\ Frame

MessagesThrow(h) ==
  /\ Throw(h, "messages")

\* a submit without the test for an empty part list
Resubmit_unchecked(h) ==
  LET lastUser == lastUserMessage(messages[h].data)
      parts == originalParts(lastUser.parts)
  IN Goto(h, "prompt",
          << PromptCall(sessionID[h], fallbackModel, lastUser.info.agent, parts) >>)

\* a submit with the model of the located message
Resubmit_originalModel(h) ==
  LET lastUser == lastUserMessage(messages[h].data)
      parts == originalParts(lastUser.parts)
  IN IF Len(parts) = 0
     THEN Goto(h, "log_noparts", << LogCall("No valid parts found in user message") >>)
     ELSE Goto(h, "prompt",
               << PromptCall(sessionID[h], lastUser.info.model, lastUser.info.agent,
                             parts) >>)

\* Lines 135-152: the parts are rebuilt and, unless none is left, submitted.
Resubmit(h) ==
  LET lastUser == lastUserMessage(messages[h].data)
      parts == originalParts(lastUser.parts)
  IN IF Len(parts) = 0
     THEN Goto(h, "log_noparts", << LogCall("No valid parts found in user message") >>)
     ELSE Goto(h, "prompt",
               << PromptCall(sessionID[h], fallbackModel, lastUser.info.agent, parts) >>)

\* Lines 121-152: the logger call of line 121 returns; revert is requested when
\* there is a message to revert to, else the parts are rebuilt at once.
Found(h) ==
  /\ pc[h] = "log_found"
  /\ IF hasRevertTarget(messages[h].data)
     THEN Goto(h, "revert",
               << RevertCall(sessionID[h], revertToMessage(messages[h].data).info.id) >>)
     ELSE Resubmit(h)
  /\ UNCHANGED messages
  /\ Frame

\* Lines 128-132: revert returns; the second delay starts.
RevertReturn(h) ==
  /\ pc[h] = "revert"
  /\ Goto(h, "delay2", << Returned("revert") >>)
  /\ UNCHANGED messages
  /\ Frame

RevertThrow(h) ==
  /\ Throw(h, "revert")

\* Lines 132-152: the delay is over.
Delay2(h) ==
  /\ pc[h] = "delay2"
  /\ Resubmit(h)
  /\ UNCHANGED messages
  /\ Frame

\* Lines 145-154: prompt returns.
PromptReturn(h) ==
  /\ pc[h] = "prompt"
  /\ Goto(h, "log_success",
          << Returned("prompt"), LogCall("Fallback prompt sent successfully") >>)
  /\ UNCHANGED messages
  /\ Frame

PromptThrow(h) ==
  /\ Throw(h, "prompt")

\* The last logger call of an invocation returns and the hook returns.
Return(h) ==
  /\ pc[h] \in LastLogPcs
  /\ pc' = [pc EXCEPT ![h] = "free"]
  /\ sessionID' = [sessionID EXCEPT ![h] = Undef]
  /\ messages' = [messages EXCEPT ![h] = BlankResponse]
  /\ trace' = [trace EXCEPT ![h] = << >>]
  /\ disturbed' = [disturbed EXCEPT ![h] = "no"]
  /\ delivered' = << >>
  /\ UNCHANGED recon
  /\ UNCHANGED <<sessionStates, now, lastCooldownEnd, cleaned>>

\* Date.now() advances.
Tick ==
  /\ now < MaxTime
  /\ now' = now + 1
  /\ delivered' = << >>
  /\ UNCHANGED recon
  /\ UNCHANGED <<sessionStates, pc, sessionID, messages, trace, lastCooldownEnd,
                 disturbed, cleaned>>

\* an invocation suspended at an await is resumed
Continue(h, R) ==
  \/ Detect(h)
  \/ AbortReturn(h)
  \/ AbortThrow(h)
  \/ Delay1(h)
  \/ \E response \in R : MessagesReturn(h, response)
  \/ MessagesThrow(h)
  \/ Found(h)
  \/ RevertReturn(h)
  \/ RevertThrow(h)
  \/ Delay2(h)
  \/ PromptReturn(h)
  \/ PromptThrow(h)
  \/ Return(h)

Step(H, E, R) ==
  \/ \E h \in H, event \in E : OnEvent(h, event)
  \/ \E h \in H : Detect(h)
  \/ \E h \in H : AbortReturn(h)
  \/ \E h \in H : AbortThrow(h)
  \/ \E h \in H : Delay1(h)
  \/ \E h \in H, response \in R : MessagesReturn(h, response)
  \/ \E h \in H : MessagesThrow(h)
  \/ \E h \in H : Found(h)
  \/ \E h \in H : RevertReturn(h)
  \/ \E h \in H : RevertThrow(h)
  \/ \E h \in H : Delay2(h)
  \/ \E h \in H : PromptReturn(h)
  \/ \E h \in H : PromptThrow(h)
  \/ \E h \in H : Return(h)
  \/ Tick

(***************************************************************************)
(* Spec: overlapping invocations of the hook for one session.              *)
(* SpecFair: Spec, where every suspended invocation is resumed: each host  *)
(* call returns or fails, each delay ends, each logger call returns.       *)
(* SpecSeq: one invocation at a time, every history up to MaxHist.         *)
(* SpecRace: up to MaxRacers overlapping invocations for qualifying        *)
(* retries and idles of one session.                                       *)
(* SpecTwo: overlapping invocations for the events of two sessions.        *)
(* SpecHang: two sessions, where the host calls made for session           *)
(* HungSession need never return: only the invocations of the other        *)
(* session are sure to be resumed.                                         *)
(***************************************************************************)
Next == Step(1..MaxHandlers, Events({"s1"}), SomeResponses)

Spec == Init /\ [][Next]_vars

Fair == \A h \in 1..MaxHandlers : WF_vars(Continue(h, SomeResponses))

SpecFair == Spec /\ Fair

NextSeq == Step({1}, Events({"s1"}), AllResponses)

SpecSeq == Init /\ [][NextSeq]_vars

RaceEvents ==
  { StatusEvent("s1", "retry", <<"q", "q">>), StatusEvent("s1", "idle", NoMessage) }

RaceResponses == { Response(TRUE, History(<<"assistant", "user">>, 0)) }

NextRace == Step(Handlers, RaceEvents, RaceResponses)

SpecRace == Init /\ [][NextRace]_vars

TwoEvents ==
  UNION { { StatusEvent(s, "retry", <<"q", "q">>), StatusEvent(s, "idle", NoMessage),
            DeletedEvent(s) } : s \in Sessions }

TwoResponses ==
  { NoData, Response(TRUE, History(<<"user">>, 0)),
    Response(TRUE, History(<<"assistant", "user">>, 0)) }

NextTwo == Step(1..MaxHandlers, TwoEvents, TwoResponses)

SpecTwo == Init /\ [][NextTwo]_vars

HungSession == "s1"

OtherSession == "s2"

HangResponses == { NoData, Response(TRUE, History(<<"assistant", "user">>, 0)) }

HangEvents ==
  { StatusEvent(OtherSession, "retry", <<"q", "q">>),
    StatusEvent(OtherSession, "idle", NoMessage), DeletedEvent(OtherSession) }

\* one invocation at a time for the session whose host calls may hang
NextHang ==
  \/ \E h \in 1..MaxHandlers, event \in HangEvents : OnEvent(h, event)
  \/ \E h \in 1..MaxHandlers :
       /\ \A g \in Handlers : sessionID[g] # HungSession
       /\ OnEvent(h, StatusEvent(HungSession, "retry", <<"q", "q">>))
  \/ \E h \in 1..MaxHandlers : Continue(h, HangResponses)
  \/ Tick

\* the runtime resumes every invocation whose awaited call has settled; the
\* calls of the invocations of HungSession need not settle
FairHang ==
  \A h \in 1..MaxHandlers :
    WF_vars(sessionID[h] # HungSession /\ Continue(h, HangResponses))

SpecHang == Init /\ [][NextHang]_vars /\ FairHang

(***************************************************************************)
(* Properties.                                                             *)
(***************************************************************************)
DeliveredRecords == { delivered[i] : i \in 1..Len(delivered) }

HostCallsOf(h) == { i \in 1..Len(trace[h]) : trace[h][i].op \in HostOps }

WritesOf(h) == { i \in 1..Len(trace[h]) : trace[h][i].op = "set" }

\* C1, as stated: a qualifying retry handled at a time before the
\* cooldownEndTime written by an earlier retry of the same session starts no
\* fallback sequence and leaves the store as it was.
C1_SecondRetryInWindowNeverStarts ==
  \A d \in DeliveredRecords :
    (isQualifyingRetry(d.event) /\ now < lastCooldownEnd[d.event.sessionID])
      => (pc[d.h] = "log_skip" /\ sessionStates = d.before)

\* C1, amended: a qualifying retry handled at a time before the cooldownEndTime
\* written by an earlier retry of the same session, with no deleted event for
\* the session handled since that write (the entry is still in the store),
\* starts no fallback sequence: it leaves the store as it was, and it makes no
\* host call and no store write before it returns.
C1_SecondRetryInWindowIsNoOp ==
  /\ \A d \in DeliveredRecords :
       (/\ isQualifyingRetry(d.event)
        /\ now < lastCooldownEnd[d.event.sessionID]
        /\ d.event.sessionID \in DOMAIN d.before)
         => (pc[d.h] = "log_skip" /\ sessionStates = d.before)
  /\ \A h \in Handlers :
       pc[h] = "log_skip" => (HostCallsOf(h) = {} /\ WritesOf(h) = {})

\* C1, witness: a second qualifying retry arrives one tick into the window and
\* is skipped.
C1_Witness ==
  \E d \in DeliveredRecords :
    /\ isQualifyingRetry(d.event)
    /\ now = 1
    /\ now < lastCooldownEnd[d.event.sessionID]
    /\ d.event.sessionID \in DOMAIN d.before
    /\ pc[d.h] = "log_skip"
    /\ \E g \in Handlers : g # d.h /\ pc[g] \in RunningPcs

\* C2: after a fallback triggered at time T (the entry carries cooldownEndTime
\* = T + CooldownMs for a trigger time T that has passed), an idle event of the
\* session handled before T + CooldownMs leaves the entry, and the store,
\* unchanged with fallbackActive true; one handled at or after T + CooldownMs
\* sets fallbackActive to false and changes nothing else.
C2_IdleClearsOnlyAfterDeadline ==
  /\ \A s \in DOMAIN sessionStates :
       /\ sessionStates[s].cooldownEndTime = lastCooldownEnd[s]
       /\ sessionStates[s].cooldownEndTime - CooldownMs \in 0..now
  /\ \A d \in DeliveredRecords :
       (/\ isIdle(d.event)
        /\ d.event.sessionID \in DOMAIN d.before
        /\ d.before[d.event.sessionID].fallbackActive)
         => LET s == d.event.sessionID
                T == d.before[s].cooldownEndTime - CooldownMs
            IN IF now < T + CooldownMs
               THEN sessionStates = d.before /\ sessionStates[s].fallbackActive
               ELSE /\ DOMAIN sessionStates = DOMAIN d.before
                    /\ sessionStates[s] = SessionState(FALSE, T + CooldownMs)
                    /\ \A k \in DOMAIN d.before \ {s} : sessionStates[k] = d.before[k]

\* C2, witness: an idle event handled exactly at T + CooldownMs has cleared the
\* flag of an entry written at T.
C2_Witness ==
  \E d \in DeliveredRecords :
    /\ isIdle(d.event)
    /\ d.event.sessionID \in DOMAIN d.before
    /\ d.before[d.event.sessionID].fallbackActive
    /\ now = d.before[d.event.sessionID].cooldownEndTime
    /\ ~sessionStates[d.event.sessionID].fallbackActive

\* C3: right after a deleted event carrying session id s is handled, the store
\* has no entry for s, whatever it held before.
C3_DeletedRemovesEntry ==
  \A d \in DeliveredRecords :
    isDeleted(d.event) =>
      /\ d.event.id \notin DOMAIN sessionStates
      /\ \A k \in DOMAIN d.before \ {d.event.id} :
           k \in DOMAIN sessionStates /\ sessionStates[k] = d.before[k]

\* C3, witness: the entry removed was in the middle of its cooldown.
C3_Witness ==
  \E d \in DeliveredRecords :
    /\ isDeleted(d.event)
    /\ d.event.id \in DOMAIN d.before
    /\ d.before[d.event.id].fallbackActive
    /\ now < d.before[d.event.id].cooldownEndTime
    /\ now > 0
    /\ d.event.id \notin DOMAIN sessionStates

\* the message, lower-cased, holds the lower-cased pattern at offset k
OccursAt(message, pattern, k) ==
  /\ k + Len(pattern) <= Len(message)
  /\ \A j \in 1..Len(pattern) :
       toLowerCase(message)[k + j] = toLowerCase(pattern)[j]

MatchesSomePattern(message) ==
  \E i \in 1..Len(Patterns), k \in 0..Len(message) : OccursAt(message, Patterns[i], k)

\* C4: a retry status event whose message matches none of the patterns leaves
\* the store unchanged and makes no call: the hook returns at once.
C4_UnmatchedRetryChangesNothing ==
  \A d \in DeliveredRecords :
    (/\ d.event.type = "session.status"
     /\ d.event.status = "retry"
     /\ d.event.message # NoMessage
     /\ ~MatchesSomePattern(d.event.message))
      => (sessionStates = d.before /\ pc[d.h] = "free" /\ trace[d.h] = << >>)

\* C4, witness: an unmatched retry message, made of a pattern's letters in
\* another order, arrives while the session has an entry.
C4_Witness ==
  \E d \in DeliveredRecords :
    /\ d.event.type = "session.status"
    /\ d.event.status = "retry"
    /\ d.event.message = <<"l", "r">>
    /\ d.event.sessionID \in DOMAIN d.before
    /\ sessionStates = d.before
    /\ pc[d.h] = "free"

\* the store write of a slot that runs, or has ended, a fallback sequence
Written(h) == trace[h][2]

\* C5, as stated: when a sequence ends, the session's entry is the one the
\* sequence's retry wrote, unless an idle or deleted event for the session was
\* handled since the write.
C5_EntryKeptUnlessIdleOrDeleted ==
  [][\A h \in Handlers :
       (pc[h] \in RunningPcs /\ pc'[h] \in EndPcs /\ disturbed[h] # "event")
         => /\ sessionID[h] \in DOMAIN sessionStates'
            /\ sessionStates'[sessionID[h]] = Written(h).state]_vars

\* C5, amended: a qualifying retry that passes the gate writes
\* {fallbackActive: true, cooldownEndTime: now + CooldownMs} before the sequence
\* runs, and while the sequence runs and when it ends, however it ends, the
\* entry is still the one written, unless an idle or deleted event for the
\* session was handled, or another qualifying retry of the session wrote the
\* entry, since the write.
C5_EntryKeptUnlessOtherEvent ==
  \A h \in Handlers :
    pc[h] \in RunningPcs \cup EndPcs
      => /\ Written(h).op = "set"
         /\ Written(h).id = sessionID[h]
         /\ Written(h).at <= now
         /\ Written(h).state = SessionState(TRUE, Written(h).at + CooldownMs)
         /\ disturbed[h] = "no"
              => /\ sessionID[h] \in DOMAIN sessionStates
                 /\ sessionStates[sessionID[h]] = Written(h).state

\* C5, witness: abort failed, time has passed since the write, and the entry is
\* as written.
C5_Witness ==
  \E h \in Handlers :
    /\ pc[h] = "log_failed"
    /\ \E i \in 1..Len(trace[h]) : trace[h][i] = Thrown("abort")
    /\ disturbed[h] = "no"
    /\ Written(h).at < now
    /\ sessionStates[sessionID[h]] = Written(h).state

RevertCallsOf(h) == { i \in 1..Len(trace[h]) : trace[h][i].op = "revert" }

PromptCallsOf(h) == { i \in 1..Len(trace[h]) : trace[h][i].op = "prompt" }

Fetched(h) == \E i \in 1..Len(trace[h]) : trace[h][i] = Returned("messages")

NoUserIn(data) == \A i \in 1..Len(data) : data[i].info.role # "user"

\* the place of the most recent user message of a history that has one
LastUserPlace(data) ==
  CHOOSE k \in 1..Len(data) :
    /\ data[k].info.role = "user"
    /\ \A j \in (k + 1)..Len(data) : data[j].info.role # "user"

\* a part the reconstruction keeps
Survives(p) ==
  /\ p.synthetic # "true"
  /\ \/ p.type = "text" /\ p.text \notin {Undef, ""}
     \/ p.type = "file" /\ p.url \notin {Undef, ""} /\ p.mime \notin {Undef, ""}
     \/ p.type = "agent" /\ p.name \notin {Undef, ""}

\* C6: submit is only called with at least one part; after a fetch that gave
\* no history, an empty one or one without a user message the sequence has
\* ended with neither revert nor submit called; when no part of the located
\* user message survives, submit is never called.
C6_SubmitOnlyWithParts ==
  \A h \in Handlers :
    /\ \A i \in PromptCallsOf(h) : Len(trace[h][i].parts) >= 1
    /\ (Fetched(h) /\ (~messages[h].defined \/ Len(messages[h].data) = 0
                        \/ NoUserIn(messages[h].data)))
         => (pc[h] \in EndPcs /\ RevertCallsOf(h) = {} /\ PromptCallsOf(h) = {})
    /\ (/\ Fetched(h)
        /\ messages[h].defined
        /\ ~NoUserIn(messages[h].data)
        /\ LET parts == messages[h].data[LastUserPlace(messages[h].data)].parts
           IN \A i \in 1..Len(parts) : ~Survives(parts[i]))
         => (PromptCallsOf(h) = {} /\ pc[h] \notin {"prompt", "log_success"})

\* C6, witness: the session was reverted, the user message gave no part and the
\* sequence ended without a submit.
C6_Witness ==
  \E h \in Handlers :
    /\ pc[h] = "log_noparts"
    /\ RevertCallsOf(h) # {}
    /\ PromptCallsOf(h) = {}

\* the sequence has gone past the choice of a revert target
PastFound(h) ==
  \/ pc[h] \in {"revert", "delay2", "prompt", "log_noparts", "log_success"}
  \/ pc[h] = "log_failed"
       /\ \E i \in 1..Len(trace[h]) : trace[h][i] \in {Thrown("revert"), Thrown("prompt")}

\* C8: with a history that has a user message, revert is called iff the most
\* recent user message is not the first message, and then with the identifier of
\* the message just before it; the parts and the agent submitted are those of
\* the most recent user message.
C8_LastUserAndRevertTarget ==
  \A h \in Handlers :
    PastFound(h) =>
      LET data == messages[h].data
          k == LastUserPlace(data)
      IN /\ RevertCallsOf(h) # {} <=> k > 1
         /\ \A i \in RevertCallsOf(h) :
              trace[h][i] = RevertCall(sessionID[h], data[k - 1].info.id)
         /\ \A i \in PromptCallsOf(h) :
              /\ trace[h][i].parts = originalParts(data[k].parts)
              /\ trace[h][i].agent = data[k].info.agent
         /\ pc[h] = "log_noparts" => originalParts(data[k].parts) = << >>

\* C8, witness: the history [user, assistant]: the parts of the first message
\* were submitted and there was no revert.
C8_Witness ==
  \E h \in Handlers :
    /\ pc[h] = "log_success"
    /\ Len(messages[h].data) = 2
    /\ messages[h].data[1].info.role = "user"
    /\ messages[h].data[2].info.role = "assistant"
    /\ RevertCallsOf(h) = {}
    /\ PromptCallsOf(h) # {}

\* the store writes and host calls of a slot, without the logger calls
IsStep(e) == e.op # "log"

StepsOf(h) == SelectSeq(trace[h], IsStep)

StepKind(e) == IF e.op \in {"return", "throw"} THEN <<e.op, e.of>> ELSE <<"call", e.op>>

KindsOf(h) == [i \in 1..Len(StepsOf(h)) |-> StepKind(StepsOf(h)[i])]

\* the steps of a whole sequence, with or without a revert
Canon(withRevert) ==
  << <<"call", "set">>, <<"call", "abort">>, <<"return", "abort">>,
     <<"call", "messages">>, <<"return", "messages">> >>
  \o (IF withRevert THEN << <<"call", "revert">>, <<"return", "revert">> >> ELSE << >>)
  \o << <<"call", "prompt">>, <<"return", "prompt">> >>

IsPrefix(a, b) == Len(a) <= Len(b) /\ SubSeq(b, 1, Len(a)) = a

\* C9: the steps a sequence has taken are, at any time, a beginning of: entry
\* written, abort called, abort returned, fetch called, fetch returned, (revert
\* called, revert returned,) submit called, submit returned; or such a
\* beginning ending in a call, followed by that call's failure and nothing else.
C9_StepsInOrder ==
  \A h \in Handlers :
    pc[h] \in RunningPcs \cup EndPcs =>
      \E withRevert \in BOOLEAN :
        LET kinds == KindsOf(h)
            n == Len(kinds)
        IN \/ n >= 2 /\ IsPrefix(kinds, Canon(withRevert))
           \/ /\ n >= 3
              /\ kinds[n][1] = "throw"
              /\ kinds[n - 1] = <<"call", kinds[n][2]>>
              /\ kinds[n][2] \in HostOps
              /\ IsPrefix(SubSeq(kinds, 1, n - 1), Canon(withRevert))

\* C9, witness: a whole sequence with a revert has run.
C9_Witness == \E h \in Handlers : pc[h] = "log_success" /\ KindsOf(h) = Canon(TRUE)

(***************************************************************************)
(* SpecRecon: the reconstruction applied to every part list of at most     *)
(* MaxParts parts.                                                         *)
(***************************************************************************)
Flags == {"true", "false", Undef}

PartChoices ==
  { TextPart(t, f) : t \in {Undef, "", "a", "b"}, f \in Flags }
    \cup { FilePart(m, n, u, f) : m \in {Undef, "m"}, n \in {Undef, "f"},
                                  u \in {Undef, "u"}, f \in Flags }
    \cup { AgentPart(n, f) : n \in {Undef, "", "ag"}, f \in Flags }
    \cup { OtherPart(f) : f \in Flags }

PartLists == UNION { [1..n -> PartChoices] : n \in 0..MaxParts }

InitRecon ==
  /\ Plugin
  /\ \E parts \in PartLists : recon = [input |-> parts, output |-> << >>, done |-> FALSE]

Reconstruct ==
  /\ ~recon.done
  /\ recon' = [recon EXCEPT !.output = originalParts(recon.input), !.done = TRUE]
  /\ UNCHANGED <<sessionStates, now, pc, sessionID, messages, trace,
                 delivered, lastCooldownEnd, disturbed, cleaned>>

NextRecon == Reconstruct

SpecRecon == InitRecon /\ [][NextRecon]_vars

\* what a kept part becomes
Image(p) ==
  CASE p.type = "text" -> [type |-> "text", text |-> p.text]
    [] p.type = "file" ->
         [type |-> "file", mime |-> p.mime, filename |-> p.filename, url |-> p.url]
    [] p.type = "agent" -> [type |-> "agent", name |-> p.name]

Kept(parts) == { i \in 1..Len(parts) : Survives(parts[i]) }

\* the place in parts of the j-th kept part
KeptPlace(parts, j) ==
  CHOOSE i \in Kept(parts) : Cardinality({ x \in Kept(parts) : x < i }) = j - 1

\* C7: the reconstruction returns the kept parts, converted, in their source
\* order and nothing else: a part is kept iff it is not flagged synthetic and is
\* a text part with non-empty text, a file part with url and mime, or an agent
\* part with a name.
C7_ReconstructionKeepsConvertibleInOrder ==
  recon.done =>
    /\ Len(recon.output) = Cardinality(Kept(recon.input))
    /\ \A j \in 1..Len(recon.output) :
         recon.output[j] = Image(recon.input[KeptPlace(recon.input, j)])

\* C7, witness: a synthetic text part then a genuine one give the genuine one.
C7_Witness ==
  /\ recon.done
  /\ recon.input = << TextPart("b", "true"), TextPart("a", Undef) >>
  /\ recon.output = << [type |-> "text", text |-> "a"] >>

Active(map, s) == s \in DOMAIN map /\ map[s].fallbackActive

\* an idle event of session s was just handled, at or after the deadline of
\* the entry it found
IdleAfterDeadline(d, s) ==
  /\ isIdle(d.event)
  /\ d.event.sessionID = s
  /\ Active(d.before, s)
  /\ now >= d.before[s].cooldownEndTime

\* an idle event handled before the deadline of an active entry changes nothing
IdleInCooldownKeeps ==
  \A d \in DeliveredRecords :
    (/\ isIdle(d.event)
     /\ Active(d.before, d.event.sessionID)
     /\ now < d.before[d.event.sessionID].cooldownEndTime)
      => sessionStates = d.before

\* C10, as stated: a session goes from fallbackActive = true to Normal (no
\* entry, or fallbackActive = false) only by an idle event handled at a time >=
\* cooldownEndTime, and an idle event handled in the cooldown changes nothing.
C10_OnlyIdleReturnsToNormal ==
  [][/\ \A s \in Sessions :
          (Active(sessionStates, s) /\ ~Active(sessionStates', s))
            => \E d \in DeliveredRecords' : IdleAfterDeadline(d, s)'
      /\ IdleInCooldownKeeps']_vars

\* C10, amended: a session goes from fallbackActive = true to Normal only by an
\* idle event handled at a time >= cooldownEndTime or by a deleted event for the
\* session, which removes its entry; no other event and no step of a fallback
\* sequence does it, and an idle event handled in the cooldown changes nothing.
C10_OnlyIdleOrDeletedReturnsToNormal ==
  [][/\ \A s \in Sessions :
          (Active(sessionStates, s) /\ ~Active(sessionStates', s))
            => \E d \in DeliveredRecords' :
                 \/ IdleAfterDeadline(d, s)'
                 \/ isDeleted(d.event) /\ d.event.id = s /\ s \notin DOMAIN sessionStates'
      /\ IdleInCooldownKeeps']_vars

\* C10, witness: a deleted event has taken a session whose cooldown had expired,
\* and that no idle event had reset, back to Normal.
C10_Witness ==
  \E d \in DeliveredRecords :
    /\ isDeleted(d.event)
    /\ Active(d.before, d.event.id)
    /\ now >= d.before[d.event.id].cooldownEndTime
    /\ ~Active(sessionStates, d.event.id)

\* C11, as stated: once a deleted event for session s has been handled, the
\* store has no entry for s until a qualifying retry for s arrives, whatever
\* handlers of earlier events for s are still in flight.
C11_NoEntryAfterDeleted ==
  \A s \in Sessions : cleaned[s] => s \notin DOMAIN sessionStates

\* slots of session s whose sequence has started
Started(s) == { h \in Handlers : pc[h] \in RunningPcs \cup EndPcs /\ sessionID[h] = s }

WellFormed(state) ==
  /\ DOMAIN state = {"fallbackActive", "cooldownEndTime"}
  /\ state.fallbackActive \in BOOLEAN
  /\ state.cooldownEndTime \in 0..(MaxTime + CooldownMs)

\* C12, as stated: the gate check and the write are one read-then-write, so
\* overlapping handlers of retries and idles of one session start at most one
\* sequence more than the same events handled one after another, and every
\* entry is well formed.  Handled one after another, two retries that both
\* start a sequence have their writes at least CooldownMs apart, so of the
\* sequences in flight whose writes lie less than CooldownMs apart at most two
\* (one, and one more) have started.
C12_RaceStartsAtMostOneMore ==
  /\ \A s \in DOMAIN sessionStates : WellFormed(sessionStates[s])
  /\ \A s \in Sessions :
       \A G \in SUBSET Started(s) :
         (\A g, h \in G : Written(g).at - Written(h).at < CooldownMs)
           => Cardinality(G) <= 2

\* the session an event is about
EventSession(e) == IF e.type = "session.deleted" THEN e.id ELSE e.sessionID

EntryOf(map, s) == IF s \in DOMAIN map THEN << map[s] >> ELSE << >>

\* C13: a step creates, modifies or removes the entry of a session B only when
\* it is the handling of an event of B or the write of an invocation started by
\* a retry of B: no event of another session A, and no step of A's fallback
\* sequence, touches B's entry.
C13_OtherSessionsUntouched ==
  [][\A B \in Sessions :
       EntryOf(sessionStates', B) # EntryOf(sessionStates, B)
         => \/ \E d \in DeliveredRecords' : EventSession(d.event) = B
            \/ \E h \in Handlers :
                 pc[h] = "log_detect" /\ pc'[h] = "abort" /\ sessionID[h] = B]_vars

\* C13, witness: a deleted event of s1 has removed s1's entry while s2's
\* sequence is in flight, and s2's entry is as it was.
C13_Witness ==
  \E d \in DeliveredRecords :
    /\ d.event = DeletedEvent("s1")
    /\ "s1" \in DOMAIN d.before
    /\ "s2" \in DOMAIN d.before
    /\ \E h \in Handlers : pc[h] \in RunningPcs /\ sessionID[h] = "s2"
    /\ EntryOf(sessionStates, "s1") = << >>
    /\ EntryOf(sessionStates, "s2") = << d.before["s2"] >>

\* C14: whatever call of HungSession's sequence never returns, every invocation
\* of the hook for an event of the other session returns, and every fallback
\* sequence of the other session gets to its end.
C14_OtherSessionRuns ==
  \A h \in 1..MaxHandlers :
    /\ (pc[h] # "free" /\ sessionID[h] # HungSession) ~> (pc[h] = "free")
    /\ (pc[h] \in RunningPcs /\ sessionID[h] = OtherSession)
         ~> (pc[h] \in EndPcs /\ sessionID[h] = OtherSession)

\* C14, witness: the sequence of HungSession still waits for its first host
\* call while a sequence of the other session, started later, has submitted.
C14_Witness ==
  \E a, b \in Handlers :
    /\ pc[a] = "abort" /\ sessionID[a] = HungSession
    /\ pc[b] = "log_success" /\ sessionID[b] = OtherSession
    /\ Written(b).at > Written(a).at

\* C15: a deleted event handled while a sequence of its session is in flight
\* removes the entry and changes nothing of the invocations in flight; a
\* sequence whose entry is gone goes on as any other, step by step to one of
\* the ends of a sequence, and reaches it.
C15_DeletedDoesNotCancel ==
  /\ [][\A d \in DeliveredRecords' :
          isDeleted(d.event) =>
            /\ EntryOf(sessionStates', d.event.id) = << >>
            /\ \A k \in Sessions \ {d.event.id} :
                 EntryOf(sessionStates', k) = EntryOf(sessionStates, k)
            /\ \A g \in Handlers \ {d.h} :
                 /\ pc'[g] = pc[g]
                 /\ sessionID'[g] = sessionID[g]
                 /\ messages'[g] = messages[g]
                 /\ trace'[g] = trace[g]]_vars
  /\ [][\A h \in Handlers :
          (pc[h] \in RunningPcs /\ sessionID[h] \notin DOMAIN sessionStates)
            => /\ pc'[h] \in RunningPcs \cup EndPcs
               /\ sessionID'[h] = sessionID[h]
               /\ IsPrefix(trace[h], trace'[h])]_vars
  /\ \A h \in 1..MaxHandlers :
       (pc[h] \in RunningPcs /\ sessionID[h] \notin DOMAIN sessionStates)
         ~> (pc[h] \in EndPcs)

\* C15, witness: a deleted event has just removed the entry of a session whose
\* sequence waits for abort to return.
C15_Witness ==
  \E d \in DeliveredRecords :
    /\ isDeleted(d.event)
    /\ d.event.id \in DOMAIN d.before
    /\ d.event.id \notin DOMAIN sessionStates
    /\ \E g \in Handlers : pc[g] = "abort" /\ sessionID[g] = d.event.id

CallsOf(h, op) == { i \in 1..Len(trace[h]) : trace[h][i].op = op }

LastStep(h) == KindsOf(h)[Len(KindsOf(h))]

\* the end an invocation is at is the one its sequence came to
EndedAsItShould(h) ==
  /\ pc[h] = "log_failed" =>
       /\ LastStep(h)[1] = "throw"
       /\ Cardinality(CallsOf(h, "throw")) = 1
  /\ pc[h] = "log_nomsgs" =>
       /\ LastStep(h) = <<"return", "messages">>
       /\ ~messages[h].defined \/ Len(messages[h].data) = 0
  /\ pc[h] = "log_nouser" =>
       /\ LastStep(h) = <<"return", "messages">>
       /\ messages[h].defined /\ NoUserIn(messages[h].data)
  /\ pc[h] = "log_noparts" =>
       /\ CallsOf(h, "prompt") = {}
       /\ LET parts == messages[h].data[LastUserPlace(messages[h].data)].parts
          IN \A i \in 1..Len(parts) : ~Survives(parts[i])
  /\ pc[h] = "log_success" => LastStep(h) = <<"return", "prompt">>

\* C16: with every call returning or failing, a started sequence gets to its
\* end: the first failure of a host call (caught: the handler logs it and
\* returns), missing data, or the return of submit.  The sequence writes the
\* entry once and makes each host call at most once, an ended sequence does
\* nothing more, and a sequence starts only in an invocation of the hook for a
\* retry event whose message matches a pattern.
C16_SequenceEndsOnce ==
  /\ \A h \in 1..MaxHandlers : (pc[h] \in RunningPcs) ~> (pc[h] \in EndPcs)
  /\ [](\A h \in Handlers :
         pc[h] \in RunningPcs \cup EndPcs =>
           /\ Cardinality(WritesOf(h)) = 1
           /\ \A op \in HostOps : Cardinality(CallsOf(h, op)) <= 1
           /\ pc[h] \in RunningPcs => CallsOf(h, "throw") = {}
           /\ EndedAsItShould(h))
  /\ [][\A h \in Handlers :
          /\ (pc[h] \in RunningPcs /\ pc'[h] # pc[h])
               => pc'[h] \in RunningPcs \cup EndPcs
          /\ (pc[h] \in EndPcs /\ pc'[h] # pc[h])
               => (pc'[h] = "free" /\ sessionStates' = sessionStates)
          /\ (pc'[h] = "abort" /\ pc[h] # "abort") => pc[h] = "log_detect"
          /\ (pc'[h] = "log_detect" /\ pc[h] # "log_detect")
               => \E d \in DeliveredRecords' :
                    /\ d.h = h
                    /\ d.event.type = "session.status"
                    /\ d.event.status = "retry"
                    /\ MatchesSomePattern(d.event.message)]_vars

\* C16, witness: revert failed; the sequence has ended there, without a submit.
C16_Witness ==
  \E h \in Handlers :
    /\ pc[h] = "log_failed"
    /\ LastStep(h) = <<"throw", "revert">>
    /\ Cardinality(CallsOf(h, "abort")) = 1
    /\ Cardinality(CallsOf(h, "messages")) = 1
    /\ CallsOf(h, "prompt") = {}

\* the session has no entry, an entry with fallbackActive false, or an entry
\* whose cooldownEndTime is t or earlier
GateOpen(map, s, t) ==
  \/ s \notin DOMAIN map
  \/ ~map[s].fallbackActive
  \/ t >= map[s].cooldownEndTime

\* C17: a retry whose message matches a pattern, handled when the session has
\* no entry, an entry with fallbackActive false, or an entry whose
\* cooldownEndTime is now or earlier (fallbackActive still true or not), passes
\* the gate; once past the gate the invocation does nothing but write
\* {fallbackActive: true, cooldownEndTime: now + CooldownMs}, with now read at
\* the write, over the session's entry and call abort, and it does so.
C17_ExpiredOrAbsentStartsAgain ==
  /\ [](\A d \in DeliveredRecords :
         (/\ d.event.type = "session.status"
          /\ d.event.status = "retry"
          /\ MatchesSomePattern(d.event.message)
          /\ GateOpen(d.before, d.event.sessionID, now))
           => /\ pc[d.h] = "log_detect"
              /\ sessionID[d.h] = d.event.sessionID
              /\ sessionStates = d.before)
  /\ [][\A h \in Handlers :
          (pc[h] = "log_detect" /\ pc'[h] # "log_detect")
            => /\ pc'[h] = "abort"
               /\ EntryOf(sessionStates', sessionID[h])
                    = << SessionState(TRUE, now + CooldownMs) >>
               /\ \A k \in Sessions \ {sessionID[h]} :
                    EntryOf(sessionStates', k) = EntryOf(sessionStates, k)
               /\ trace'[h] = trace[h] \o
                    << SetCall(sessionID[h], SessionState(TRUE, now + CooldownMs), now),
                       AbortCall(sessionID[h]) >>]_vars
  /\ \A h \in 1..MaxHandlers : (pc[h] = "log_detect") ~> (pc[h] = "abort")

\* C17, witness: a retry handled at the very instant the cooldown ends, with
\* fallbackActive still true, has passed the gate.
C17_Witness ==
  \E d \in DeliveredRecords :
    /\ isQualifyingRetry(d.event)
    /\ d.event.sessionID \in DOMAIN d.before
    /\ d.before[d.event.sessionID].fallbackActive
    /\ now = d.before[d.event.sessionID].cooldownEndTime
    /\ pc[d.h] = "log_detect"

\* an event that is no retry with a matching message, no idle status and no
\* deleted event with a session id
Ignored(e) ==
  \/ e.type \notin {"session.status", "session.deleted"}
  \/ e.type = "session.deleted" /\ e.id \in {Undef, ""}
  \/ e.type = "session.status" /\ e.status = "busy"
  \/ /\ e.type = "session.status"
     /\ e.status = "retry"
     /\ e.message \in {NoMessage, << >>} \/ ~MatchesSomePattern(e.message)

\* C18: the hook called with such an event returns at once: the store and the
\* invocations in flight are as they were, and no call, to the host or to the
\* logger, is made.
C18_OtherEventsIgnored ==
  [][\A d \in DeliveredRecords' :
       Ignored(d.event) =>
         /\ sessionStates' = sessionStates /\ sessionStates' = d.before
         /\ pc' = pc /\ pc'[d.h] = "free"
         /\ trace' = trace
         /\ sessionID' = sessionID
         /\ messages' = messages]_vars

\* C18, witness: a busy status arrives for a session whose cooldown has run
\* out with fallbackActive still true, and the entry is as it was.
C18_Witness ==
  \E d \in DeliveredRecords :
    /\ d.event = StatusEvent("s1", "busy", NoMessage)
    /\ Active(d.before, "s1")
    /\ now >= d.before["s1"].cooldownEndTime
    /\ sessionStates = d.before
    /\ pc[d.h] = "free"

\* C19: the invocation of a retry event keeps the event's session id; every
\* abort, fetch, revert and submit of its sequence carries that id; every
\* submit carries the configured fallback model, which is not the model of the
\* located user message, and that message's agent (absent when it has none).
C19_CallsTargetTheSession ==
  /\ [](\A h \in Handlers :
         /\ \A i \in HostCallsOf(h) :
              trace[h][i].id = sessionID[h] /\ sessionID[h] \in Sessions
         /\ \A i \in PromptCallsOf(h) :
              LET located == messages[h].data[LastUserPlace(messages[h].data)]
              IN /\ trace[h][i].model =
                      [providerID |-> "anthropic", modelID |-> "claude-opus-4-5"]
                 /\ trace[h][i].model # located.info.model
                 /\ trace[h][i].agent = located.info.agent)
  /\ [][/\ \A d \in DeliveredRecords' :
            pc'[d.h] = "log_detect" => sessionID'[d.h] = d.event.sessionID
        /\ \A h \in Handlers :
            pc[h] \in {"log_detect"} \cup RunningPcs => sessionID'[h] = sessionID[h]]_vars

\* C19, witness: sequences of both sessions are in flight; the one of s2 has
\* submitted, with the agent of its user message, while s1's waits for revert.
C19_Witness ==
  \E a, b \in Handlers :
    /\ pc[a] = "revert" /\ sessionID[a] = "s1"
    /\ pc[b] = "log_success" /\ sessionID[b] = "s2"
    /\ \E i \in PromptCallsOf(b) :
         /\ trace[b][i].id = "s2"
         /\ trace[b][i].model = fallbackModel
         /\ trace[b][i].agent = "build"

\* slots of session s whose sequence has started and not ended
InFlight(s) == { h \in Handlers : pc[h] \in RunningPcs /\ sessionID[h] = s }

\* C20, as stated: while a sequence of session s is in flight no second one
\* starts: a qualifying retry of s handled meanwhile is held back by the gate
\* (one that passes the gate writes the entry and calls abort as soon as its
\* logger call returns).
C20_OneSequenceInFlight ==
  \A d \in DeliveredRecords :
    (isQualifyingRetry(d.event) /\ InFlight(d.event.sessionID) \ {d.h} # {})
      => pc[d.h] = "log_skip"

\* C20, amended: while a sequence of session s is in flight, a qualifying retry
\* of s handled after the sequence's write and before the cooldownEndTime it
\* wrote, with no deleted event of s handled in between (the session has an
\* entry), starts no second sequence: it is skipped, changes nothing and makes
\* no host call.
C20_NoSecondSequenceInCooldown ==
  /\ \A d \in DeliveredRecords :
       (/\ isQualifyingRetry(d.event)
        /\ d.event.sessionID \in DOMAIN d.before
        /\ \E h \in InFlight(d.event.sessionID) \ {d.h} :
             now < Written(h).at + CooldownMs)
         => /\ pc[d.h] = "log_skip"
            /\ sessionStates = d.before
            /\ HostCallsOf(d.h) = {}
  /\ \A h \in Handlers :
       pc[h] = "log_skip" => \A i \in 1..Len(trace[h]) : trace[h][i].op = "log"

\* C20, witness: a retry arrives at the last instant of the cooldown of a
\* sequence that waits for submit to return, and is skipped.
C20_Witness ==
  \E d \in DeliveredRecords :
    /\ isQualifyingRetry(d.event)
    /\ pc[d.h] = "log_skip"
    /\ \E h \in InFlight(d.event.sessionID) :
         pc[h] = "prompt" /\ now = Written(h).at + CooldownMs - 1

====
